---- MODULE Spec2Model ----
(***************************************************************************)
(* A model of the Geneva clock controller: the stepper driver of           *)
(* GenericClockBoard (phase table, Step) and the clock mechanics of        *)
(* GenevaClockMechanics (UpdateClock, Home).                               *)
(*                                                                         *)
(* The motor is modelled by the physical position of the indicator on the  *)
(* ring of m_StepsPerCycle steps (motorPos); the home sensor is either a   *)
(* free digital input (every read may return either level) or a switch     *)
(* whose level is a function of motorPos.                                  *)
(***************************************************************************)
EXTENDS Integers, Sequences, FiniteSets, TLC

----------------------------------------------------------------------------
(* Bounds of the model.                                                    *)

\* Largest fullStepsPerRev handed to the constructor.
MaxFullStepsPerRev == 1

\* Widest active range of the position-determined home sensor, in steps.
MaxHomeWidth == 2

\* The times of day handed to UpdateClock are the multiples of this many
\* minutes after 00:00.
TimeStride == 90

\* The raw deltas handed to the normalisation reach this many cycles.
DeltaCycles == 2

----------------------------------------------------------------------------
(* Program constants.                                                      *)

MINUTES_PER_HOUR == 60
HOURS_PER_REV == 3
HOURS_PER_CYCLE == 12
MINUTES_PER_CYCLE == MINUTES_PER_HOUR * HOURS_PER_CYCLE
GEAR_RATIO == 32 \div 8

NUM_STEPPER_PINS == 4
PHASE_1_PIN == 19
PHASE_2_PIN == 16
PHASE_3_PIN == 17
PHASE_4_PIN == 21

STEP_CW == 1
STEP_CCW == -1

StepSlow == -1
StepAuto == 0
StepFast == 1

StatusSuccess == 0
StatusHomePhase1Error == 1
StatusHomePhase2Error == 2
StatusHomePhase3Error == 3

\* The pin tables, indexed from 1 here and from 0 in the source.
StepperPins == <<PHASE_1_PIN, PHASE_2_PIN, PHASE_3_PIN, PHASE_4_PIN>>
StepperPinsReversedRepeated == <<PHASE_4_PIN, PHASE_3_PIN, PHASE_2_PIN, PHASE_2_PIN>>
StepperPinsReversed == <<PHASE_4_PIN, PHASE_3_PIN, PHASE_2_PIN, PHASE_1_PIN>>

----------------------------------------------------------------------------
(* C++ integer arithmetic: / truncates toward zero and % takes the sign    *)
(* of the dividend.  The divisor is positive wherever the program divides. *)

Abs(x) == IF x < 0 THEN -x ELSE x

CDiv(a, b) == IF a >= 0 THEN a \div b ELSE -((-a) \div b)

CRem(a, b) == a - b * CDiv(a, b)

----------------------------------------------------------------------------
VARIABLES
    fullStepsPerRev,        \* constructor argument
    stepperPinsReversed,    \* constructor argument
    stepperHalfStepping,    \* constructor argument
    m_InvertHome,           \* constructor argument homeNormallyOpen
    m_NumStepperPhases,     \* 4 or 8
    m_StepsPerHour,
    m_StepsPerCycle,
    m_CurrentStepperPhase,
    gpioOut,                \* the stepper pins currently driven high
    m_LastStepperPos,
    m_LastMinutes,
    pc,                     \* "idle", a phase of Home, or "returned"
    i,                      \* loop counter of Home
    status,                 \* value Home returned, -1 when there is none
    motorPos,               \* physical position of the indicator, 0..StepsPerCycle-1
    sensorKind,             \* "free" or "position"
    homeStart,              \* first active position of a "position" sensor
    homeWidth,              \* number of active positions of a "position" sensor
    lastCall,               \* the method called last, its arguments and its Step calls
    prevCall,               \* the method called before that, and its arguments
    callClock,              \* m_LastStepperPos and m_LastMinutes when lastCall began
    callMotor,              \* phase, pins and motorPos when an UpdateClock call began
    logging,                \* whether the steps of Home are counted
    nCwFast,                \* steps issued by the Home call, by kind
    nCcwFast,
    nCwSlow,
    sawHome,                \* IsHome() has returned true in the Home call
    lastRead,               \* what the last IsHome() of the Home call returned
    rawDelta,               \* newMotorPos - m_LastStepperPos, as first computed
    deltaSteps,             \* the local deltaSteps of UpdateClock
    minuteOfCycle,          \* a minute of the cycle, as newTimeInMinutes
    positionOfMinute,       \* the newMotorPos computed for minuteOfCycle
    lastStep,               \* the last Step call of the Home call, <<>> when none
    j,                      \* loop counter of Step
    delayUnits,             \* delay of the last iteration of Step, in m_StepperRapidDelayUs
    calPc,                  \* position in Calibrate, "none" outside it
    buttonPressed,          \* the pushbutton is held down
    stepsSinceHome          \* sum of the steps UpdateClock issued since a successful
                            \* Home, modulo m_StepsPerCycle; -1 when a later Home or
                            \* Calibrate has moved the motor

config == <<fullStepsPerRev, stepperPinsReversed, stepperHalfStepping, m_InvertHome,
            m_NumStepperPhases, m_StepsPerHour, m_StepsPerCycle>>
sensor == <<sensorKind, homeStart, homeWidth>>
motor == <<m_CurrentStepperPhase, gpioOut, motorPos>>
clock == <<m_LastStepperPos, m_LastMinutes>>
calls == <<lastCall, prevCall, callClock, callMotor>>
homeLog == <<nCwFast, nCcwFast, nCwSlow, sawHome, lastRead, lastStep>>
locals == <<rawDelta, deltaSteps, minuteOfCycle, positionOfMinute>>
nested == <<j, delayUnits, calPc, buttonPressed>>

vars == <<config, sensor, motor, clock, stepsSinceHome, calls, logging, homeLog, locals, nested,
          pc, i, status>>

----------------------------------------------------------------------------
(* GenericClockBoard: the phase table.  A bit pattern is the set of the    *)
(* GPIO numbers whose bits are set.                                        *)

m_pStepperPins == IF stepperPinsReversed THEN StepperPinsReversed ELSE StepperPins

PIN_BP(p) == {m_pStepperPins[p + 1]}

m_StepperClearMaskPartial == PIN_BP(0) \cup PIN_BP(1) \cup PIN_BP(2)

m_StepperClearMask == PIN_BP(0) \cup PIN_BP(1) \cup PIN_BP(2) \cup PIN_BP(3)

m_StepperSequenceSkewed ==
    IF m_NumStepperPhases = 4
    THEN [k \in 0..3 |-> PIN_BP(k)]
    ELSE [k \in 0..7 |->
            IF k % 2 = 0
            THEN PIN_BP(k \div 2)
            ELSE PIN_BP(k \div 2) \cup PIN_BP(((k \div 2) + 2) % NUM_STEPPER_PINS)]

m_StepperSequence ==
    IF m_NumStepperPhases = 4
    THEN [k \in 0..3 |-> PIN_BP(k)]
    ELSE [k \in 0..7 |->
            IF k % 2 = 0
            THEN PIN_BP(k \div 2)
            ELSE PIN_BP(k \div 2) \cup PIN_BP(((k \div 2) + 1) % NUM_STEPPER_PINS)]

----------------------------------------------------------------------------
(* GenericClockBoard::Step.                                                *)

StepDeltaBackTwo(steps) == IF steps > 0 THEN 1 ELSE m_NumStepperPhases - 2

\* The direction of a move as an increment of the phase index.
StepDelta(steps) == IF steps > 0 THEN 1 ELSE m_NumStepperPhases - 1

\* One iteration: advance the phase, set its pins, (delay,) clear all pins.
StepIteration(delta, st) ==
    LET phase == (st.phase + delta) % m_NumStepperPhases
        asserted == st.out \cup m_StepperSequence[phase]
    IN  [phase |-> phase, out |-> asserted \ m_StepperClearMask]

RECURSIVE StepLoop(_, _, _, _)
StepLoop(k, absSteps, delta, st) ==
    IF k < absSteps
    THEN StepLoop(k + 1, absSteps, delta, StepIteration(delta, st))
    ELSE st

\* The phase index and the pins after Step(steps, speed).
StepResult(steps, speed, st) ==
    IF steps = 0
    THEN [phase |-> st.phase, out |-> st.out \ m_StepperClearMask]
    ELSE StepLoop(0, Abs(steps), StepDelta(steps), st)

\* The indicator follows the motor: one position per step, on a ring.
MotorMove(pos, steps) == (pos + steps) % m_StepsPerCycle

Step(steps, speed) ==
    LET r == StepResult(steps, speed,
                        [phase |-> m_CurrentStepperPhase, out |-> gpioOut])
    IN  /\ m_CurrentStepperPhase' = r.phase
        /\ gpioOut' = r.out
        /\ motorPos' = MotorMove(motorPos, steps)

----------------------------------------------------------------------------
(* The home sensor.                                                        *)

\* A "position" sensor is active on homeWidth positions from homeStart on.
SensorActive(pos) == ((pos - homeStart) % m_StepsPerCycle) < homeWidth

\* The level of HOME_PIN: with the pull-up, a normally open switch pulls
\* the pin low when active, a normally closed one lets it go high.
HomePinLevelsFloating == BOOLEAN

HomePinLevels ==
    IF sensorKind = "position"
    THEN {SensorActive(motorPos) # m_InvertHome}
    ELSE BOOLEAN

IsHome(pinHigh) == pinHigh # m_InvertHome

----------------------------------------------------------------------------
(* Construction.                                                           *)

NoCall == [op |-> "none", hour |-> 0, min |-> 0, steps |-> <<>>]

Constructed(fspr, reversed, half, normallyOpen) ==
    LET stepsPerRev == fspr * (IF half THEN 2 ELSE 1)
    IN  /\ fullStepsPerRev = fspr
        /\ stepperPinsReversed = reversed
        /\ stepperHalfStepping = half
        /\ m_InvertHome = normallyOpen
        /\ m_CurrentStepperPhase = 0
        /\ gpioOut = {}
        /\ m_NumStepperPhases = IF half THEN 8 ELSE 4
        /\ m_StepsPerHour = (stepsPerRev * GEAR_RATIO) \div HOURS_PER_REV
        /\ m_StepsPerCycle =
               stepsPerRev * GEAR_RATIO * (HOURS_PER_CYCLE \div HOURS_PER_REV)
        /\ m_LastStepperPos = 0
        /\ m_LastMinutes = 0
        /\ pc = "idle"
        /\ i = 0
        /\ status = -1
        /\ lastCall = NoCall
        /\ prevCall = NoCall
        /\ callClock = <<0, 0>>
        /\ callMotor = <<>>
        /\ nCwFast = 0
        /\ nCcwFast = 0
        /\ nCwSlow = 0
        /\ sawHome = FALSE
        /\ lastRead = FALSE
        /\ lastStep = <<>>
        /\ minuteOfCycle = 0
        /\ positionOfMinute = 0
        /\ j = 0
        /\ delayUnits = 0
        /\ calPc = "none"
        /\ buttonPressed = FALSE
        /\ stepsSinceHome = -1

PositionSensor ==
    /\ sensorKind = "position"
    /\ homeStart \in {0, m_StepsPerCycle - 1}
    /\ homeWidth \in 1..MaxHomeWidth

FreeSensor ==
    /\ sensorKind = "free"
    /\ homeStart = 0
    /\ homeWidth = 0

----------------------------------------------------------------------------
(* GenericClockBoard::Step once more, one action per half of an iteration: *)
(* the phase is advanced and its pins are set; after the delay all pins    *)
(* are cleared.                                                            *)

\* Largest magnitude of the step counts handed to Step directly.
MaxStepArg == 9

\* The arguments of the Step call that is running or has returned.
CurrentStep == lastCall.steps[Len(lastCall.steps)]

StepEntryAlwaysLoop(steps) == "stepLoop"

\* if (!steps) { clear the pins; return; }
StepEntry(steps) == IF steps = 0 THEN "returned" ELSE "stepLoop"

StepEnter(steps) ==
    /\ pc' = StepEntry(steps)
    /\ j' = 0
    /\ delayUnits' = 0
    /\ gpioOut' = IF steps = 0 THEN gpioOut \ m_StepperClearMask ELSE gpioOut
    /\ UNCHANGED <<m_CurrentStepperPhase, motorPos>>

StepCall(steps, speed) ==
    /\ pc = "idle"
    /\ lastCall' = [op |-> "Step", hour |-> 0, min |-> 0,
                    steps |-> << <<steps, speed>> >>]
    /\ callMotor' = <<m_CurrentStepperPhase, gpioOut, motorPos>>
    /\ StepEnter(steps)
    /\ UNCHANGED <<config, sensor, clock, stepsSinceHome, logging, homeLog, locals, prevCall,
                   callClock, calPc, buttonPressed, i, status>>

\* The move just made is taken back: Step(-steps, speed).
StepBackCall ==
    /\ pc = "returned"
    /\ lastCall.op = "Step"
    /\ Len(lastCall.steps) = 1
    /\ lastCall' = [lastCall EXCEPT
                       !.steps = Append(@, <<-CurrentStep[1], CurrentStep[2]>>)]
    /\ StepEnter(-CurrentStep[1])
    /\ UNCHANGED <<config, sensor, clock, stepsSinceHome, logging, homeLog, locals, prevCall,
                   callClock, callMotor, calPc, buttonPressed, i, status>>

IterationDelayEarlyDecel(jj, absSteps, speed) ==
    1 + (IF speed = StepSlow THEN 4
         ELSE IF speed = StepAuto
              THEN (IF jj < 20 THEN 1 ELSE 0) + (IF jj < 10 THEN 1 ELSE 0)
                   + (IF jj < 5 THEN 1 ELSE 0)
                   + (IF absSteps - jj <= 20 THEN 1 ELSE 0)
                   + (IF absSteps - jj < 10 THEN 1 ELSE 0)
                   + (IF absSteps - jj < 5 THEN 1 ELSE 0)
              ELSE 0)

\* The delays of iteration jj, counted in m_StepperRapidDelayUs.
IterationDelay(jj, absSteps, speed) ==
    1 + (IF speed = StepSlow THEN 4
         ELSE IF speed = StepAuto
              THEN (IF jj < 20 THEN 1 ELSE 0) + (IF jj < 10 THEN 1 ELSE 0)
                   + (IF jj < 5 THEN 1 ELSE 0)
                   + (IF absSteps - jj < 20 THEN 1 ELSE 0)
                   + (IF absSteps - jj < 10 THEN 1 ELSE 0)
                   + (IF absSteps - jj < 5 THEN 1 ELSE 0)
              ELSE 0)

StepAssert ==
    /\ pc = "stepLoop"
    /\ j < Abs(CurrentStep[1])
    /\ pc' = "stepPulse"
    /\ LET phase == (m_CurrentStepperPhase + StepDelta(CurrentStep[1]))
                        % m_NumStepperPhases
       IN  /\ m_CurrentStepperPhase' = phase
           /\ gpioOut' = gpioOut \cup m_StepperSequence[phase]
    /\ motorPos' = MotorMove(motorPos, IF CurrentStep[1] > 0 THEN STEP_CW ELSE STEP_CCW)
    /\ UNCHANGED <<config, sensor, clock, stepsSinceHome, calls, logging, homeLog, locals, nested,
                   i, status>>

StepClear ==
    /\ pc = "stepPulse"
    /\ pc' = "stepLoop"
    /\ delayUnits' = IterationDelay(j, Abs(CurrentStep[1]), CurrentStep[2])
    /\ gpioOut' = gpioOut \ m_StepperClearMask
    /\ j' = j + 1
    /\ UNCHANGED <<config, sensor, clock, stepsSinceHome, calls, logging, homeLog, locals,
                   m_CurrentStepperPhase, motorPos, calPc, buttonPressed, i, status>>

StepExit ==
    /\ pc = "stepLoop"
    /\ ~(j < Abs(CurrentStep[1]))
    /\ pc' = "returned"
    /\ UNCHANGED <<config, sensor, motor, clock, stepsSinceHome, calls, logging, homeLog, locals,
                   nested, i, status>>

\* Largest magnitude of the step counts of the long moves.
MaxLongStep == 45

StepLong ==
    \E steps \in ((-MaxLongStep)..MaxLongStep) \ {0},
       speed \in {StepSlow, StepAuto, StepFast} :
        StepCall(steps, speed)

StepAny ==
    \E steps \in (-MaxStepArg)..MaxStepArg, speed \in {StepSlow, StepAuto, StepFast} :
        StepCall(steps, speed)

\* The default wiring; the indicator stands where the ring is numbered from.
Init ==
    /\ \E fspr \in 1..MaxFullStepsPerRev, half \in BOOLEAN :
           Constructed(fspr, FALSE, half, TRUE)
    /\ PositionSensor \/ FreeSensor
    /\ motorPos = 0
    /\ logging = FALSE
    /\ rawDelta = 0
    /\ deltaSteps = 0

----------------------------------------------------------------------------
(* GenevaClockMechanics::UpdateClock.                                      *)

\* The times of day handed to UpdateClock, in minutes after 00:00; tm_hour
\* and tm_min are TmHour(t) and TmMin(t).
HOURS_PER_DAY == 24
Times == {t \in 0..(HOURS_PER_DAY * MINUTES_PER_HOUR - 1) : t % TimeStride = 0}
TmHour(t) == t \div MINUTES_PER_HOUR
TmMin(t) == t % MINUTES_PER_HOUR

NewTimeInMinutesOfDay(hour, min) == (hour * MINUTES_PER_HOUR) + min

NewTimeInMinutes(hour, min) == ((hour % HOURS_PER_CYCLE) * MINUTES_PER_HOUR) + min

UpdateNeededAlways(newTimeInMinutes) == TRUE

UpdateNeeded(newTimeInMinutes) == newTimeInMinutes # m_LastMinutes

NewMotorPosRoundedUp(newTimeInMinutes) ==
    CDiv(newTimeInMinutes * m_StepsPerCycle + MINUTES_PER_CYCLE - 1, MINUTES_PER_CYCLE)

NewMotorPos(newTimeInMinutes) ==
    CDiv(newTimeInMinutes * m_StepsPerCycle, MINUTES_PER_CYCLE)

NormalizeDeltaNone(d) == d

NormalizeDeltaInclusive(d) ==
    IF d >= CDiv(m_StepsPerCycle, 2)
    THEN d - m_StepsPerCycle
    ELSE IF d <= CDiv(-m_StepsPerCycle, 2)
         THEN d + m_StepsPerCycle
         ELSE d

\* The two comparisons that follow deltaSteps = newMotorPos - m_LastStepperPos.
NormalizeDelta(d) ==
    IF d > CDiv(m_StepsPerCycle, 2)
    THEN d - m_StepsPerCycle
    ELSE IF d < CDiv(-m_StepsPerCycle, 2)
         THEN d + m_StepsPerCycle
         ELSE d

NextStepperPosAbsolute(pos, d) == Abs(CRem(pos + d, m_StepsPerCycle))

\* m_LastStepperPos = (m_LastStepperPos + deltaSteps) % m_StepsPerCycle
NextStepperPos(pos, d) == CRem(pos + d, m_StepsPerCycle)

UpdateClock(hour, min) ==
    /\ pc = "idle"
    /\ pc' = "returned"
    /\ callClock' = <<m_LastStepperPos, m_LastMinutes>>
    /\ callMotor' = <<m_CurrentStepperPhase, gpioOut, motorPos>>
    /\ LET newTimeInMinutes == NewTimeInMinutes(hour, min)
           newMotorPos == NewMotorPos(newTimeInMinutes)
           d == NormalizeDelta(newMotorPos - m_LastStepperPos)
       IN  IF UpdateNeeded(newTimeInMinutes)
           THEN /\ m_LastMinutes' = newTimeInMinutes
                /\ Step(d, StepAuto)
                /\ m_LastStepperPos' = NextStepperPos(m_LastStepperPos, d)
                /\ stepsSinceHome' = IF stepsSinceHome < 0
                                     THEN stepsSinceHome
                                     ELSE (stepsSinceHome + d) % m_StepsPerCycle
                /\ lastCall' = [op |-> "UpdateClock", hour |-> hour, min |-> min,
                                steps |-> << <<d, StepAuto>> >>]
           ELSE /\ UNCHANGED <<clock, motor, stepsSinceHome>>
                /\ lastCall' = [op |-> "UpdateClock", hour |-> hour, min |-> min,
                                steps |-> <<>>]
    /\ UNCHANGED <<config, sensor, logging, nested, homeLog, locals, prevCall, i, status>>

----------------------------------------------------------------------------
(* GenevaClockMechanics::Home, one action per evaluation of a loop test.   *)

MAX_STEPS == m_StepsPerCycle + m_StepsPerHour

Phase1CondOver(home, k) == ~home /\ k <= MAX_STEPS
Phase1CondShort(home, k) == ~home /\ k < m_StepsPerCycle

Phase1Cond(home, k) == ~home /\ k < MAX_STEPS
Phase1Failed(k) == k >= MAX_STEPS

Phase2CondInverted(home, k) == ~home /\ k < m_StepsPerHour

Phase2Cond(home, k) == home /\ k < m_StepsPerHour

Phase2FailedLate(k) == k > m_StepsPerHour
Phase2Failed(k) == k >= m_StepsPerHour

Phase3FailedEarly(k) == k >= 1
Phase3CondSkipped(home, k) == FALSE

Phase3Cond(home, k) == ~home /\ k < m_StepsPerHour
Phase3Failed(k) == k >= m_StepsPerHour

\* The bookkeeping of a read of the sensor and of a single step.
LogRead(home) ==
    /\ sawHome' = (sawHome \/ (logging /\ home))
    /\ lastRead' = (logging /\ home)

LogStep(steps, speed) ==
    /\ nCwFast' = nCwFast +
           (IF logging /\ steps = STEP_CW /\ speed = StepFast THEN 1 ELSE 0)
    /\ nCcwFast' = nCcwFast +
           (IF logging /\ steps = STEP_CCW /\ speed = StepFast THEN 1 ELSE 0)
    /\ nCwSlow' = nCwSlow +
           (IF logging /\ steps = STEP_CW /\ speed = StepSlow THEN 1 ELSE 0)
    /\ lastStep' = IF logging THEN <<steps, speed>> ELSE lastStep

HomeCall ==
    /\ pc = "idle"
    /\ pc' = "phase1"
    /\ i' = 0
    /\ lastCall' = [op |-> "Home", hour |-> 0, min |-> 0, steps |-> <<>>]
    /\ callClock' = <<m_LastStepperPos, m_LastMinutes>>
    /\ stepsSinceHome' = -1
    /\ UNCHANGED <<config, sensor, motor, clock, logging, nested, homeLog, locals,
                   prevCall, callMotor, status>>

HomeLoopStep(steps, speed) ==
    /\ Step(steps, speed)
    /\ LogStep(steps, speed)
    /\ i' = i + 1
    /\ UNCHANGED <<config, sensor, clock, stepsSinceHome, calls, logging, nested, locals, pc, status>>

HomeNextPhase(next) ==
    /\ pc' = next
    /\ i' = 0
    /\ UNCHANGED <<config, sensor, motor, clock, stepsSinceHome, calls, logging, nested, locals,
                   nCwFast, nCcwFast, nCwSlow, lastStep, status>>

HomeReturn(code) ==
    /\ pc' = "returned"
    /\ status' = code
    /\ UNCHANGED <<config, sensor, motor, calls, logging, nested, locals,
                   nCwFast, nCcwFast, nCwSlow, lastStep, i>>

HomePhase1Step ==
    /\ pc = "phase1"
    /\ \E pinHigh \in HomePinLevels :
           /\ Phase1Cond(IsHome(pinHigh), i)
           /\ LogRead(IsHome(pinHigh))
    /\ HomeLoopStep(STEP_CW, StepFast)

HomePhase1Error ==
    /\ pc = "phase1"
    /\ \E pinHigh \in HomePinLevels :
           /\ ~Phase1Cond(IsHome(pinHigh), i)
           /\ LogRead(IsHome(pinHigh))
    /\ Phase1Failed(i)
    /\ HomeReturn(StatusHomePhase1Error)
    /\ UNCHANGED <<clock, stepsSinceHome>>

HomePhase1Done ==
    /\ pc = "phase1"
    /\ \E pinHigh \in HomePinLevels :
           /\ ~Phase1Cond(IsHome(pinHigh), i)
           /\ LogRead(IsHome(pinHigh))
    /\ ~Phase1Failed(i)
    /\ HomeNextPhase("phase2")

HomePhase2StepSlow ==
    /\ pc = "phase2"
    /\ \E pinHigh \in HomePinLevels :
           /\ Phase2Cond(IsHome(pinHigh), i)
           /\ LogRead(IsHome(pinHigh))
    /\ HomeLoopStep(STEP_CCW, StepSlow)

HomePhase2Step ==
    /\ pc = "phase2"
    /\ \E pinHigh \in HomePinLevels :
           /\ Phase2Cond(IsHome(pinHigh), i)
           /\ LogRead(IsHome(pinHigh))
    /\ HomeLoopStep(STEP_CCW, StepFast)

HomePhase2Error ==
    /\ pc = "phase2"
    /\ \E pinHigh \in HomePinLevels :
           /\ ~Phase2Cond(IsHome(pinHigh), i)
           /\ LogRead(IsHome(pinHigh))
    /\ Phase2Failed(i)
    /\ HomeReturn(StatusHomePhase2Error)
    /\ UNCHANGED <<clock, stepsSinceHome>>

HomePhase2Done ==
    /\ pc = "phase2"
    /\ \E pinHigh \in HomePinLevels :
           /\ ~Phase2Cond(IsHome(pinHigh), i)
           /\ LogRead(IsHome(pinHigh))
    /\ ~Phase2Failed(i)
    /\ HomeNextPhase("phase3")

HomePhase3Step ==
    /\ pc = "phase3"
    /\ \E pinHigh \in HomePinLevels :
           /\ Phase3Cond(IsHome(pinHigh), i)
           /\ LogRead(IsHome(pinHigh))
    /\ HomeLoopStep(STEP_CW, StepSlow)

HomePhase3ErrorResets ==
    /\ pc = "phase3"
    /\ \E pinHigh \in HomePinLevels :
           /\ ~Phase3Cond(IsHome(pinHigh), i)
           /\ LogRead(IsHome(pinHigh))
    /\ Phase3Failed(i)
    /\ m_LastStepperPos' = 0
    /\ m_LastMinutes' = 0
    /\ stepsSinceHome' = 0
    /\ HomeReturn(StatusHomePhase3Error)

HomePhase3Error ==
    /\ pc = "phase3"
    /\ \E pinHigh \in HomePinLevels :
           /\ ~Phase3Cond(IsHome(pinHigh), i)
           /\ LogRead(IsHome(pinHigh))
    /\ Phase3Failed(i)
    /\ HomeReturn(StatusHomePhase3Error)
    /\ UNCHANGED <<clock, stepsSinceHome>>

\* Homed successfully: the time and the stepper position are reset.
HomeSuccess ==
    /\ pc = "phase3"
    /\ \E pinHigh \in HomePinLevels :
           /\ ~Phase3Cond(IsHome(pinHigh), i)
           /\ LogRead(IsHome(pinHigh))
    /\ ~Phase3Failed(i)
    /\ m_LastStepperPos' = 0
    /\ m_LastMinutes' = 0
    /\ stepsSinceHome' = 0
    /\ HomeReturn(StatusSuccess)

----------------------------------------------------------------------------
(* GenevaClockMechanics::Calibrate, one action per read of the pushbutton. *)
(* Home runs inside it by its own actions; the step back is one Step.      *)

IsButtonPressed == buttonPressed

CalLoopCondAlways(pressed) == TRUE

\* while (!IsButtonPressed())
CalLoopCond(pressed) == ~pressed

CalBreakOnFailure(pressed, code) == pressed \/ code # StatusSuccess

\* if (IsButtonPressed()) break;  after Home(), whose status is dropped
CalBreak(pressed, code) == pressed

CalibrateCall ==
    /\ pc = "idle"
    /\ calPc = "none"
    /\ pc' = "calibrate"
    /\ calPc' = "entry"
    /\ lastCall' = [op |-> "Calibrate", hour |-> 0, min |-> 0, steps |-> <<>>]
    /\ callClock' = <<m_LastStepperPos, m_LastMinutes>>
    /\ stepsSinceHome' = -1
    /\ UNCHANGED <<config, sensor, motor, clock, logging, homeLog, locals,
                   prevCall, callMotor, j, delayUnits, buttonPressed, i, status>>

CalExit ==
    /\ calPc' = "done"
    /\ pc' = "returned"
    /\ UNCHANGED <<config, sensor, motor, clock, stepsSinceHome, calls, logging, homeLog, locals,
                   j, delayUnits, buttonPressed, i, status>>

CalContinue(next) ==
    /\ calPc' = next
    /\ pc' = "calibrate"
    /\ UNCHANGED <<config, sensor, motor, clock, stepsSinceHome, calls, logging, homeLog, locals,
                   j, delayUnits, buttonPressed, i, status>>

\* The loop test; when it passes, Home() is entered.
CalLoopTest ==
    /\ pc = "calibrate"
    /\ calPc \in {"entry", "loopTest"}
    /\ IF CalLoopCond(IsButtonPressed)
       THEN /\ calPc' = "home"
            /\ pc' = "phase1"
            /\ i' = 0
            /\ UNCHANGED <<config, sensor, motor, clock, stepsSinceHome, calls, logging, homeLog,
                           locals, j, delayUnits, buttonPressed, status>>
       ELSE CalExit

\* Home() has returned: the button is read, then delay(10000) begins.
CalAfterHome ==
    /\ pc = "returned"
    /\ calPc = "home"
    /\ IF CalBreak(IsButtonPressed, status)
       THEN CalExit
       ELSE CalContinue("dwell")

CalAfterDwellTracksStep ==
    /\ pc = "calibrate"
    /\ calPc = "dwell"
    /\ IF IsButtonPressed
       THEN CalExit
       ELSE /\ Step(-m_StepsPerHour, StepFast)
            /\ lastCall' = [lastCall EXCEPT
                               !.steps = << <<-m_StepsPerHour, StepFast>> >>]
            /\ calPc' = "stepped"
            /\ stepsSinceHome' = -1
            /\ m_LastStepperPos' = NextStepperPos(m_LastStepperPos, -m_StepsPerHour)
            /\ UNCHANGED <<config, sensor, m_LastMinutes, logging, homeLog, locals,
                           prevCall, callClock, callMotor, j, delayUnits, buttonPressed,
                           pc, i, status>>

\* delay(10000) is over: the button is read, then the clock steps back.
CalAfterDwell ==
    /\ pc = "calibrate"
    /\ calPc = "dwell"
    /\ IF IsButtonPressed
       THEN CalExit
       ELSE /\ Step(-m_StepsPerHour, StepFast)
            /\ lastCall' = [lastCall EXCEPT
                               !.steps = << <<-m_StepsPerHour, StepFast>> >>]
            /\ calPc' = "stepped"
            /\ stepsSinceHome' = -1
            /\ UNCHANGED <<config, sensor, clock, logging, homeLog, locals,
                           prevCall, callClock, callMotor, j, delayUnits, buttonPressed,
                           pc, i, status>>

\* The step back is done: the button is read, then delay(500) begins.
CalAfterStep ==
    /\ pc = "calibrate"
    /\ calPc = "stepped"
    /\ IF IsButtonPressed
       THEN CalExit
       ELSE CalContinue("pause")

\* delay(500) is over: back to the loop test.
CalAfterPause ==
    /\ pc = "calibrate"
    /\ calPc = "pause"
    /\ CalContinue("loopTest")

\* The operator presses or releases the pushbutton, at any time.
Press ==
    /\ ~buttonPressed
    /\ buttonPressed' = TRUE
    /\ UNCHANGED <<config, sensor, motor, clock, stepsSinceHome, calls, logging, homeLog, locals,
                   j, delayUnits, calPc, pc, i, status>>

Release ==
    /\ buttonPressed
    /\ buttonPressed' = FALSE
    /\ UNCHANGED <<config, sensor, motor, clock, stepsSinceHome, calls, logging, homeLog, locals,
                   j, delayUnits, calPc, pc, i, status>>

----------------------------------------------------------------------------
(* The caller: the method returns, and what was observed of it is dropped. *)

Return ==
    /\ pc = "returned"
    /\ pc' = "idle"
    /\ prevCall' = [lastCall EXCEPT !.steps = <<>>]
    /\ lastCall' = NoCall
    /\ callClock' = <<0, 0>>
    /\ callMotor' = <<>>
    /\ i' = 0
    /\ status' = -1
    /\ nCwFast' = 0
    /\ nCcwFast' = 0
    /\ nCwSlow' = 0
    /\ sawHome' = FALSE
    /\ lastRead' = FALSE
    /\ lastStep' = <<>>
    /\ j' = 0
    /\ delayUnits' = 0
    /\ calPc \in {"none", "done"}
    /\ calPc' = "none"
    /\ UNCHANGED <<config, sensor, motor, clock, stepsSinceHome, logging, locals, buttonPressed>>

Update == \E t \in Times : UpdateClock(TmHour(t), TmMin(t))

Next ==
    \/ Update
    \/ HomeCall
    \/ HomePhase1Step
    \/ HomePhase1Error
    \/ HomePhase1Done
    \/ HomePhase2Step
    \/ HomePhase2Error
    \/ HomePhase2Done
    \/ HomePhase3Step
    \/ HomePhase3Error
    \/ HomeSuccess
    \/ Return

Spec == Init /\ [][Next]_vars

----------------------------------------------------------------------------
(* Homing alone, from any position of the indicator at power-up, with any  *)
(* kind of switch, and with the steps of Home counted.                      *)

InitHome ==
    /\ \E fspr \in 1..MaxFullStepsPerRev, half \in BOOLEAN,
          normallyOpen \in BOOLEAN :
           Constructed(fspr, FALSE, half, normallyOpen)
    /\ PositionSensor \/ FreeSensor
    /\ motorPos \in 0..(m_StepsPerCycle - 1)
    /\ logging = TRUE
    /\ rawDelta = 0
    /\ deltaSteps = 0

HomeRun ==
    \/ HomePhase1Step
    \/ HomePhase1Error
    \/ HomePhase1Done
    \/ HomePhase2Step
    \/ HomePhase2Error
    \/ HomePhase2Done
    \/ HomePhase3Step
    \/ HomePhase3Error
    \/ HomeSuccess

NextHome ==
    \/ HomeCall
    \/ HomeRun
    \/ Return

SpecHome == InitHome /\ [][NextHome]_vars

\* The same from the position and the wiring of Init.
InitHomeFair ==
    /\ \E fspr \in 1..MaxFullStepsPerRev, half \in BOOLEAN :
           Constructed(fspr, FALSE, half, TRUE)
    /\ PositionSensor \/ FreeSensor
    /\ motorPos = 0
    /\ logging = TRUE
    /\ rawDelta = 0
    /\ deltaSteps = 0

\* Home blocks its caller: once called it runs until it returns.
SpecHomeFair == InitHomeFair /\ [][NextHome]_vars /\ WF_vars(HomeRun)

----------------------------------------------------------------------------
(* The stepper driver alone, with either order of the pins and either      *)
(* stepping mode: Step is called with any count and speed, and a move may  *)
(* be taken back before the next one.                                      *)

InitStep ==
    /\ \E fspr \in 1..MaxFullStepsPerRev, reversed \in BOOLEAN, half \in BOOLEAN :
           Constructed(fspr, reversed, half, TRUE)
    /\ FreeSensor
    /\ motorPos = 0
    /\ logging = FALSE
    /\ rawDelta = 0
    /\ deltaSteps = 0

NextStep ==
    \/ StepAny
    \/ StepBackCall
    \/ StepAssert
    \/ StepClear
    \/ StepExit
    \/ Return

SpecStep == InitStep /\ [][NextStep]_vars

----------------------------------------------------------------------------
(* Calibration: Calibrate is called, and the pushbutton is pressed and     *)
(* released at any time.  Calibrate and the Home inside it block their     *)
(* caller, so they run until they return.                                  *)

CalRun ==
    \/ CalLoopTest
    \/ CalAfterHome
    \/ CalAfterDwell
    \/ CalAfterStep
    \/ CalAfterPause

NextCalibrate ==
    \/ CalibrateCall
    \/ CalRun
    \/ HomeRun
    \/ Return
    \/ Press
    \/ Release

SpecCalibrate == Init /\ [][NextCalibrate]_vars /\ WF_vars(CalRun \/ HomeRun)

----------------------------------------------------------------------------
(* One long move of the stepper driver, of any length up to MaxLongStep    *)
(* either way and at any speed.                                            *)

NextLong ==
    \/ StepLong
    \/ StepAssert
    \/ StepClear
    \/ StepExit

SpecLong == Init /\ [][NextLong]_vars

----------------------------------------------------------------------------
(* The normalisation of deltaSteps alone, on every raw delta of up to      *)
(* DeltaCycles cycles either way.                                          *)

InitDelta ==
    /\ \E fspr \in 1..MaxFullStepsPerRev, half \in BOOLEAN :
           Constructed(fspr, FALSE, half, TRUE)
    /\ FreeSensor
    /\ motorPos = 0
    /\ logging = FALSE
    /\ rawDelta \in (-(DeltaCycles * m_StepsPerCycle))..(DeltaCycles * m_StepsPerCycle)
    /\ deltaSteps = rawDelta

Normalize ==
    /\ pc = "idle"
    /\ pc' = "normalized"
    /\ deltaSteps' = NormalizeDelta(deltaSteps)
    /\ UNCHANGED <<config, sensor, motor, clock, stepsSinceHome, calls, logging, nested, homeLog,
                   rawDelta, minuteOfCycle, positionOfMinute, i, status>>

NextDelta == Normalize

SpecDelta == InitDelta /\ [][NextDelta]_vars

----------------------------------------------------------------------------
(* The clock driven minute by minute: the times of day handed to           *)
(* UpdateClock are every second one of Times and the minute before it.     *)

MINUTES_PER_DAY == HOURS_PER_DAY * MINUTES_PER_HOUR

MinuteTimes ==
    {t \in 0..(MINUTES_PER_DAY - 1) :
        \E a \in Times : \E o \in {-1, 0} :
            /\ (a \div TimeStride) % 2 = 0
            /\ t = (a + o) % MINUTES_PER_DAY}

UpdateMinute == \E t \in MinuteTimes : UpdateClock(TmHour(t), TmMin(t))

NextMinutes ==
    \/ UpdateMinute
    \/ HomeCall
    \/ HomeRun
    \/ Return

SpecMinutes == Init /\ [][NextMinutes]_vars

----------------------------------------------------------------------------
(* The time-to-position mapping of UpdateClock alone, on every minute of   *)
(* the cycle, for the driver built with the constructor's defaults: 2048   *)
(* full steps per revolution, pins not reversed, half stepping, a normally *)
(* open home switch.                                                       *)

DefaultFullStepsPerRev == 2048

InitMapping ==
    /\ Constructed(DefaultFullStepsPerRev, FALSE, TRUE, TRUE)
    /\ FreeSensor
    /\ motorPos = 0
    /\ logging = FALSE
    /\ rawDelta = 0
    /\ deltaSteps = 0

MapMinute ==
    /\ pc = "idle"
    /\ pc' = "mapped"
    /\ \E m \in 0..(MINUTES_PER_CYCLE - 1) :
           /\ minuteOfCycle' = m
           /\ positionOfMinute' = NewMotorPos(m)
    /\ UNCHANGED <<config, sensor, motor, clock, stepsSinceHome, calls, logging, nested, homeLog,
                   rawDelta, deltaSteps, i, status>>

NextMapping == MapMinute

SpecMapping == InitMapping /\ [][NextMapping]_vars

----------------------------------------------------------------------------
(* Calibrate on a clock that has been running: UpdateClock has moved the   *)
(* indicator to a time of day before the calibration starts.               *)

\* The times of day the clock is set to before it is calibrated.
ServiceTimes == {TimeStride, 5 * TimeStride}

UpdateService == \E t \in ServiceTimes : UpdateClock(TmHour(t), TmMin(t))

NextService ==
    \/ UpdateService
    \/ CalibrateCall
    \/ CalRun
    \/ HomeRun
    \/ Return
    \/ Press
    \/ Release

SpecService == Init /\ [][NextService]_vars

----------------------------------------------------------------------------
(* The claims.                                                             *)

HomePhases == {"phase1", "phase2", "phase3"}
StatusCodes == {StatusSuccess, StatusHomePhase1Error, StatusHomePhase2Error,
                StatusHomePhase3Error}
HalfCycle == m_StepsPerCycle \div 2
FreshPosition == (m_LastMinutes * m_StepsPerCycle) \div MINUTES_PER_CYCLE
UpdateReturned == pc = "returned" /\ lastCall.op = "UpdateClock"
HomeReturned == pc = "returned" /\ lastCall.op = "Home"

\* C1: every step count UpdateClock passes to Step has a magnitude of at
\* most half a cycle.  The code breaks it.
StepWithinHalfCycle ==
    UpdateReturned =>
        \A k \in 1..Len(lastCall.steps) : Abs(lastCall.steps[k][1]) <= HalfCycle

\* C2: between calls, m_LastStepperPos is the position computed fresh
\* from m_LastMinutes.  The code breaks it.
PositionMatchesMinutes ==
    pc \in {"idle", "returned"} => m_LastStepperPos = FreshPosition

\* C3: m_LastStepperPos lies in 0..m_StepsPerCycle-1 in every reachable
\* state.  The code breaks it.
PositionInCycle == m_LastStepperPos \in 0..(m_StepsPerCycle - 1)

\* C4: whatever the sensor reads, Home returns one of the four status codes,
\* and no phase issues more single steps than its budget: m_StepsPerCycle +
\* m_StepsPerHour clockwise fast, m_StepsPerHour counterclockwise fast,
\* m_StepsPerHour clockwise slow.
HomeStepsBounded ==
    /\ nCwFast <= m_StepsPerCycle + m_StepsPerHour
    /\ nCcwFast <= m_StepsPerHour
    /\ nCwSlow <= m_StepsPerHour
    /\ nCwFast + nCcwFast + nCwSlow
           <= (m_StepsPerCycle + m_StepsPerHour) + m_StepsPerHour + m_StepsPerHour
    /\ HomeReturned => status \in StatusCodes

HomeTerminates ==
    /\ []HomeStepsBounded
    /\ (pc \in HomePhases) ~> HomeReturned

HomeTerminatesWitness ==
    /\ HomeReturned
    /\ status = StatusHomePhase3Error
    /\ nCwFast > 0
    /\ nCcwFast > 0
    /\ nCwSlow = m_StepsPerHour

\* C5 as stated: with a position-determined sensor, Home returns Success
\* with m_LastStepperPos = 0 and m_LastMinutes = 0 from wherever it starts.
HomingDeterminismAsStated ==
    (HomeReturned /\ sensorKind = "position") =>
        (status = StatusSuccess /\ m_LastStepperPos = 0 /\ m_LastMinutes = 0)

\* C5 as amended: with a position-determined sensor whose active range is
\* narrower than m_StepsPerHour steps, Home returns Success with
\* m_LastStepperPos = 0 and m_LastMinutes = 0 from wherever it starts.
HomingDeterminism ==
    (HomeReturned /\ sensorKind = "position" /\ homeWidth < m_StepsPerHour) =>
        (status = StatusSuccess /\ m_LastStepperPos = 0 /\ m_LastMinutes = 0)

HomingDeterminismWitness ==
    /\ HomeReturned
    /\ sensorKind = "position"
    /\ homeWidth < m_StepsPerHour
    /\ status = StatusSuccess
    /\ callClock[1] # 0
    /\ callClock[2] # 0
    /\ m_CurrentStepperPhase # 0

\* C6: with a position-determined sensor, every Home that returns Success
\* leaves the indicator on the first active position met clockwise,
\* homeStart, also when it started inside the active range.
HomeRepeatable ==
    (HomeReturned /\ sensorKind = "position" /\ status = StatusSuccess) =>
        motorPos = homeStart

HomeRepeatableWitness ==
    /\ HomeReturned
    /\ sensorKind = "position"
    /\ status = StatusSuccess
    /\ nCwFast = 0
    /\ nCcwFast > 0
    /\ motorPos = homeStart

\* C7: while the sensor has not read active, Home stays in phase 1; it
\* returns, with HomePhase1Error, only after exactly m_StepsPerCycle +
\* m_StepsPerHour clockwise fast steps and no other step.
NeverActivePhase1Error ==
    (logging /\ lastCall.op = "Home" /\ ~sawHome) =>
        /\ nCcwFast = 0
        /\ nCwSlow = 0
        /\ pc \in {"phase1", "returned"}
        /\ pc = "phase1" => nCwFast = i
        /\ pc = "returned" =>
               (status = StatusHomePhase1Error /\ nCwFast = MAX_STEPS)

NeverActivePhase1ErrorWitness ==
    /\ logging
    /\ HomeReturned
    /\ ~sawHome
    /\ status = StatusHomePhase1Error
    /\ nCwFast = MAX_STEPS

\* C8: a Home that returns an error leaves m_LastStepperPos and
\* m_LastMinutes as they were when it was called; only a Success return
\* sets them, to 0; and nothing changes them while Home runs.
HomeErrorKeepsClock ==
    /\ pc \in HomePhases => clock = callClock
    /\ HomeReturned =>
           IF status = StatusSuccess
           THEN clock = <<0, 0>>
           ELSE status \in StatusCodes /\ clock = callClock

HomeErrorKeepsClockWitness ==
    /\ HomeReturned
    /\ status = StatusHomePhase3Error
    /\ callClock[1] # 0
    /\ callClock[2] # 0
    /\ clock = callClock

\* C9: an UpdateClock with the time of day of the UpdateClock before it
\* calls Step not at all and leaves m_LastStepperPos, m_LastMinutes, the
\* phase index, the pins and the indicator as they were.
SameTimeAgain ==
    /\ UpdateReturned
    /\ prevCall.op = "UpdateClock"
    /\ prevCall.hour = lastCall.hour
    /\ prevCall.min = lastCall.min

UpdateIdempotent ==
    SameTimeAgain =>
        /\ lastCall.steps = <<>>
        /\ clock = callClock
        /\ motor = callMotor

UpdateIdempotentWitness ==
    /\ SameTimeAgain
    /\ lastCall.steps = <<>>
    /\ m_LastMinutes # 0
    /\ m_LastStepperPos # 0

\* C10: the normalisation returns a delta of at most half a cycle as it is,
\* and turns a larger one into one of strictly smaller magnitude that is
\* congruent to it modulo m_StepsPerCycle.
NormalizationShortens ==
    pc = "normalized" =>
        IF Abs(rawDelta) <= HalfCycle
        THEN deltaSteps = rawDelta
        ELSE /\ Abs(deltaSteps) < Abs(rawDelta)
             /\ (deltaSteps - rawDelta) % m_StepsPerCycle = 0

NormalizationShortensWitness ==
    /\ pc = "normalized"
    /\ Abs(rawDelta) > HalfCycle
    /\ deltaSteps # rawDelta
    /\ Abs(deltaSteps) > HalfCycle

\* C11: an UpdateClock for the minute of the cycle that follows the minute
\* of the UpdateClock before it, 11:59 then 00:00 included, issues one Step
\* of at most the ceiling of m_StepsPerCycle / MINUTES_PER_CYCLE steps,
\* whatever Home and UpdateClock calls came before.
MinuteOfCall(call) == NewTimeInMinutes(call.hour, call.min)

ConsecutiveMinutes ==
    /\ UpdateReturned
    /\ prevCall.op = "UpdateClock"
    /\ MinuteOfCall(lastCall) = (MinuteOfCall(prevCall) + 1) % MINUTES_PER_CYCLE

StepsPerMinuteCeiling ==
    (m_StepsPerCycle + MINUTES_PER_CYCLE - 1) \div MINUTES_PER_CYCLE

ConsecutiveMinuteStepSmall ==
    ConsecutiveMinutes =>
        /\ Len(lastCall.steps) = 1
        /\ Abs(lastCall.steps[1][1]) <= StepsPerMinuteCeiling

ConsecutiveMinuteStepSmallWitness ==
    /\ ConsecutiveMinutes
    /\ MinuteOfCall(prevCall) = MINUTES_PER_CYCLE - 1
    /\ MinuteOfCall(lastCall) = 0
    /\ callClock[1] < 0
    /\ lastCall.steps[1][1] > 0

\* C12 as stated: when the raw delta newMotorPos - m_LastStepperPos is
\* exactly half a cycle, UpdateClock steps half a cycle counterclockwise.
RawDeltaOfCall == NewMotorPos(MinuteOfCall(lastCall)) - callClock[1]

HalfCycleTie ==
    /\ UpdateReturned
    /\ Len(lastCall.steps) = 1
    /\ RawDeltaOfCall = HalfCycle

TieTowardNegativeAsStated ==
    HalfCycleTie => lastCall.steps[1][1] = -HalfCycle

\* C12 as amended: a raw delta of exactly half a cycle, either way, passes
\* both comparisons and is the step issued: +m_StepsPerCycle/2 stays
\* clockwise, -m_StepsPerCycle/2 stays counterclockwise.
TieKeepsRawDelta ==
    (UpdateReturned /\ Len(lastCall.steps) = 1 /\ Abs(RawDeltaOfCall) = HalfCycle) =>
        lastCall.steps[1][1] = RawDeltaOfCall

TieKeepsRawDeltaWitness ==
    /\ HalfCycleTie
    /\ callClock[1] # 0
    /\ lastCall.steps[1][1] = HalfCycle

\* C13 as stated: with the default configuration, minuteOfCycle *
\* m_StepsPerCycle is divisible by MINUTES_PER_CYCLE for every minute of
\* the cycle.
MappingRemainder ==
    minuteOfCycle * m_StepsPerCycle - positionOfMinute * MINUTES_PER_CYCLE

MappingExactAsStated ==
    pc = "mapped" => (minuteOfCycle * m_StepsPerCycle) % MINUTES_PER_CYCLE = 0

\* C13 as amended: with the default configuration the division is exact
\* only for the minutes that are multiples of 45; for every other minute
\* the position is truncated, by less than one step.
MappingTruncates ==
    pc = "mapped" =>
        /\ m_StepsPerCycle = 65536
        /\ MappingRemainder \in 0..(MINUTES_PER_CYCLE - 1)
        /\ (MappingRemainder = 0) <=> (minuteOfCycle % 45 = 0)

MappingTruncatesWitness ==
    /\ pc = "mapped"
    /\ minuteOfCycle = 1
    /\ positionOfMinute = 91
    /\ MappingRemainder = 16

\* C14: Step(n, StepFast) followed by Step(-n, StepFast) leaves
\* m_CurrentStepperPhase as it was before the first call, for every n,
\* every starting phase index and both numbers of phases.
SteppedThereAndBack ==
    /\ pc = "returned"
    /\ lastCall.op = "Step"
    /\ Len(lastCall.steps) = 2
    /\ lastCall.steps[1][2] = StepFast
    /\ lastCall.steps[2] = <<-lastCall.steps[1][1], StepFast>>

StepReversible ==
    SteppedThereAndBack => m_CurrentStepperPhase = callMotor[1]

StepReversibleWitness ==
    /\ SteppedThereAndBack
    /\ m_NumStepperPhases = 8
    /\ lastCall.steps[1][1] = -MaxStepArg
    /\ callMotor[1] = 3
    /\ j = MaxStepArg

\* C15: Step(0, speed) returns without an iteration of its loop, with the
\* phase index it was called with and with none of the four stepper pins
\* driven, for every speed and both numbers of phases.
StepZeroCalled ==
    /\ lastCall.op = "Step"
    /\ Len(lastCall.steps) = 1
    /\ lastCall.steps[1][1] = 0

StepZeroIdle ==
    StepZeroCalled =>
        /\ pc = "returned"
        /\ j = 0
        /\ m_CurrentStepperPhase = callMotor[1]
        /\ motorPos = callMotor[3]
        /\ gpioOut \cap m_StepperClearMask = {}

StepZeroIdleWitness ==
    /\ StepZeroCalled
    /\ pc = "returned"
    /\ lastCall.steps[1][2] = StepSlow
    /\ m_NumStepperPhases = 4
    /\ m_CurrentStepperPhase = 3

\* C16: while the pushbutton is and stays pressed, Calibrate enters no Home
\* and begins no step back; a Calibrate that finds the button pressed at its
\* first loop test returns without the motor having moved; and a Calibrate
\* that is running with the button pressed returns unless the button is
\* released.
InCalibrate == calPc \notin {"none", "done"}
StartsHome == calPc # "home" /\ calPc' = "home"
StartsStepBack == calPc # "stepped" /\ calPc' = "stepped"

CalibrateAborts ==
    /\ [][(buttonPressed /\ buttonPressed') => ~(StartsHome \/ StartsStepBack)]_vars
    /\ [][calPc' = "entry" => motor' = motor]_vars
    /\ [][(calPc = "entry" /\ buttonPressed /\ calPc' # "entry") =>
              (calPc' = "done" /\ motor' = motor)]_vars
    /\ (InCalibrate /\ buttonPressed) ~> (~buttonPressed \/ calPc = "done")

CalibrateAbortsWitness ==
    /\ calPc = "done"
    /\ lastCall.op = "Calibrate"
    /\ buttonPressed
    /\ status \in StatusCodes
    /\ lastCall.steps = <<>>

\* C17: Calibrate leaves its loop only on a read of the pushbutton that
\* finds it pressed, never because of the status of Home; unless the button
\* is pressed, a failed Home is followed by the step back, which is
\* Step(-m_StepsPerHour, StepFast), and the step back by the next Home.
HomeFailedInCalibrate ==
    /\ calPc = "home"
    /\ pc = "returned"
    /\ status # StatusSuccess

SteppedBackAfterFailure ==
    /\ calPc = "stepped"
    /\ status # StatusSuccess

CalibrateIgnoresStatus ==
    /\ [][(calPc # "done" /\ calPc' = "done") => buttonPressed]_vars
    /\ [](calPc = "stepped" =>
              lastCall.steps = << <<-m_StepsPerHour, StepFast>> >>)
    /\ HomeFailedInCalibrate ~> (buttonPressed \/ SteppedBackAfterFailure)
    /\ SteppedBackAfterFailure ~> (buttonPressed \/ (calPc = "home" /\ pc = "phase1"))

CalibrateIgnoresStatusWitness ==
    /\ calPc = "home"
    /\ pc = "phase1"
    /\ ~buttonPressed
    /\ status = StatusHomePhase1Error
    /\ lastCall.steps = << <<-m_StepsPerHour, StepFast>> >>

\* C18 as stated: whatever the sensor reads, the last Step of a Home that
\* returns Success is Step(STEP_CW, StepSlow).
HomeSucceeded == logging /\ HomeReturned /\ status = StatusSuccess

SlowApproachAsStated ==
    HomeSucceeded => lastStep = <<STEP_CW, StepSlow>>

\* C18 as amended: with a sensor whose reading depends only on the position
\* of the motor, the last Step of a Home that returns Success is
\* Step(STEP_CW, StepSlow).
SlowApproach ==
    (HomeSucceeded /\ sensorKind = "position") => lastStep = <<STEP_CW, StepSlow>>

SlowApproachWitness ==
    /\ HomeSucceeded
    /\ sensorKind = "position"
    /\ nCwFast > 0
    /\ nCcwFast > 0
    /\ lastStep = <<STEP_CW, StepSlow>>

\* C19: in the phase table the constructor builds, every entry and the entry
\* after it, the first after the last, differ by exactly one pin when there
\* are 8 phases; with 4 phases every entry drives exactly one pin and the
\* entry after it drives a different single pin.
PhaseTableAdjacent ==
    /\ DOMAIN m_StepperSequence = 0..(m_NumStepperPhases - 1)
    /\ \A k \in 0..(m_NumStepperPhases - 1) :
           LET a == m_StepperSequence[k]
               b == m_StepperSequence[(k + 1) % m_NumStepperPhases]
           IN  IF m_NumStepperPhases = 8
               THEN Cardinality((a \ b) \cup (b \ a)) = 1
               ELSE Cardinality(a) = 1 /\ Cardinality(b) = 1 /\ a # b

PhaseTableAdjacentWitness ==
    /\ m_NumStepperPhases = 8
    /\ stepperPinsReversed
    /\ pc = "stepPulse"
    /\ m_CurrentStepperPhase = 7
    /\ gpioOut = {PHASE_1_PIN, PHASE_4_PIN}

\* C20: the phase table holds the same set of bit patterns, and the clear
\* mask the same four pins, whether the driver is constructed with
\* stepperPinsReversed or without: the patterns that StepperPins gives.
TablePatterns == {m_StepperSequence[k] : k \in DOMAIN m_StepperSequence}

NonReversedPatterns ==
    {{StepperPins[p]} : p \in 1..NUM_STEPPER_PINS}
    \cup (IF m_NumStepperPhases = 8
          THEN {{StepperPins[p], StepperPins[(p % NUM_STEPPER_PINS) + 1]} :
                    p \in 1..NUM_STEPPER_PINS}
          ELSE {})

ReversalPermutes ==
    /\ TablePatterns = NonReversedPatterns
    /\ Cardinality(TablePatterns) = m_NumStepperPhases
    /\ m_StepperClearMask = {StepperPins[p] : p \in 1..NUM_STEPPER_PINS}

ReversalPermutesWitness ==
    /\ stepperPinsReversed
    /\ m_NumStepperPhases = 8
    /\ m_StepperSequence[1] = {PHASE_4_PIN, PHASE_3_PIN}
    /\ m_StepperSequence[1] \in NonReversedPatterns
    /\ pc = "returned"

\* C21: a Home whose sensor has read active in phase 1, after any number of
\* clockwise fast steps up to m_StepsPerCycle + m_StepsPerHour, does not
\* return HomePhase1Error.  The code breaks it on the last step.
FoundInPhase1Proceeds ==
    (logging /\ HomeReturned /\ sawHome) => status # StatusHomePhase1Error

\* C22: a Home whose phase 2 ends on a read that finds the sensor still
\* active returns HomePhase2Error, after exactly m_StepsPerHour
\* counterclockwise fast steps and without a slow step; and every
\* HomePhase2Error return comes after exactly that many such steps.
Phase2StuckError ==
    /\ [][(pc = "phase2" /\ pc' # "phase2" /\ lastRead') =>
              /\ pc' = "returned"
              /\ status' = StatusHomePhase2Error
              /\ nCcwFast' = m_StepsPerHour
              /\ nCwSlow' = 0]_vars
    /\ []((HomeReturned /\ status = StatusHomePhase2Error) =>
              (nCcwFast = m_StepsPerHour /\ nCwSlow = 0))

Phase2StuckErrorWitness ==
    /\ HomeReturned
    /\ status = StatusHomePhase2Error
    /\ sawHome
    /\ lastRead
    /\ nCwFast > 0
    /\ nCcwFast = m_StepsPerHour
    /\ m_StepsPerHour > 1

\* C23: every step of a Home call is Step(STEP_CW, StepFast),
\* Step(STEP_CCW, StepFast) or Step(STEP_CW, StepSlow), moves the motor by
\* that one step, and comes in this order: no clockwise fast step after a
\* counterclockwise or a slow one, no counterclockwise step after a slow one.
HomeStepKinds ==
    {<<STEP_CW, StepFast>>, <<STEP_CCW, StepFast>>, <<STEP_CW, StepSlow>>}

HomeStepCount == nCwFast + nCcwFast + nCwSlow

HomeStepsOrdered ==
    /\ []((logging /\ lastCall.op = "Home") =>
              /\ lastStep \in HomeStepKinds \cup {<<>>}
              /\ (lastStep = <<>>) <=> (HomeStepCount = 0)
              /\ lastStep = <<STEP_CW, StepFast>> => (nCcwFast = 0 /\ nCwSlow = 0)
              /\ lastStep = <<STEP_CCW, StepFast>> => nCwSlow = 0)
    /\ [][(pc \in HomePhases /\ motor' # motor) =>
              /\ HomeStepCount' = HomeStepCount + 1
              /\ motorPos' = MotorMove(motorPos, lastStep'[1])]_vars

HomeStepsOrderedWitness ==
    /\ logging
    /\ HomeReturned
    /\ status = StatusSuccess
    /\ nCwFast > 1
    /\ nCcwFast > 0
    /\ nCwSlow > 0
    /\ lastStep = <<STEP_CW, StepSlow>>

\* C24: the stepper pins are driven only inside an iteration of Step:
\* before and after every Step call and between two iterations none of
\* them is driven, and inside an iteration the driven pins are exactly the
\* table entry of the phase index, one pin with 4 phases and one or two with
\* 8; the phase index stays in 0..m_NumStepperPhases-1.
PinsPulsed ==
    /\ m_CurrentStepperPhase \in 0..(m_NumStepperPhases - 1)
    /\ pc \in {"idle", "stepLoop", "returned"} => gpioOut = {}
    /\ pc = "stepPulse" =>
           /\ gpioOut = m_StepperSequence[m_CurrentStepperPhase]
           /\ Cardinality(gpioOut) \in
                  (IF m_NumStepperPhases = 8 THEN {1, 2} ELSE {1})

PinsPulsedWitness ==
    /\ pc = "stepPulse"
    /\ m_NumStepperPhases = 8
    /\ j > 1
    /\ CurrentStep[1] < 0
    /\ Cardinality(gpioOut) = 2

\* C25: iteration jj of a move of n steps is delayed by 1 unit of
\* m_StepperRapidDelayUs at StepFast, by 5 at StepSlow, and at StepAuto by 1
\* plus one for each of jj < 20, jj < 10, jj < 5, n - jj < 20, n - jj < 10,
\* n - jj < 5 that holds: at most 7, and exactly 1 when 20 <= jj <= n - 20.
DelayThresholds == {20, 10, 5}

StatedDelay(jj, n, speed) ==
    IF speed = StepFast THEN 1
    ELSE IF speed = StepSlow THEN 5
    ELSE 1 + Cardinality({t \in DelayThresholds : jj < t})
           + Cardinality({t \in DelayThresholds : n - jj < t})

IterationDone == lastCall.op = "Step" /\ j > 0

StepDelays ==
    IterationDone =>
        LET jj == j - 1
            n == Abs(CurrentStep[1])
            speed == CurrentStep[2]
        IN  /\ delayUnits = StatedDelay(jj, n, speed)
            /\ speed = StepAuto => delayUnits <= 7
            /\ (speed = StepAuto /\ 20 <= jj /\ jj <= n - 20) => delayUnits = 1

StepDelaysWitness ==
    /\ IterationDone
    /\ CurrentStep = <<-MaxLongStep, StepAuto>>
    /\ j - 1 = MaxLongStep - 20
    /\ delayUnits = 1

\* C26: UpdateClock maps every tm_hour in 0..23 and tm_min in 0..59 to the
\* minute (tm_hour mod 12) * 60 + tm_min of the cycle, m_LastMinutes stays
\* in 0..719, and an UpdateClock for the time twelve hours after that of the
\* UpdateClock before it calls Step not at all and changes nothing.
HalfDayLater ==
    /\ UpdateReturned
    /\ prevCall.op = "UpdateClock"
    /\ lastCall.hour = prevCall.hour + HOURS_PER_CYCLE
    /\ lastCall.min = prevCall.min

UpdateMapsToCycle ==
    /\ (lastCall = NoCall) =>
           \A hour \in 0..(HOURS_PER_DAY - 1), min \in 0..(MINUTES_PER_HOUR - 1) :
              /\ NewTimeInMinutes(hour, min) \in 0..(MINUTES_PER_CYCLE - 1)
              /\ NewTimeInMinutes(hour, min) =
                     NewTimeInMinutes(hour % HOURS_PER_CYCLE, min)
    /\ UpdateReturned =>
           NewTimeInMinutes(lastCall.hour, lastCall.min)
               \in 0..(MINUTES_PER_CYCLE - 1)
    /\ m_LastMinutes \in 0..(MINUTES_PER_CYCLE - 1)
    /\ (UpdateReturned /\ lastCall.steps # <<>>) =>
           m_LastMinutes = (lastCall.hour % HOURS_PER_CYCLE) * MINUTES_PER_HOUR
                               + lastCall.min
    /\ HalfDayLater =>
           /\ lastCall.steps = <<>>
           /\ clock = callClock
           /\ motor = callMotor

UpdateMapsToCycleWitness ==
    /\ HalfDayLater
    /\ lastCall.steps = <<>>
    /\ lastCall.min # 0
    /\ m_LastMinutes # 0
    /\ m_LastStepperPos # 0

\* C27: after a successful Home followed by UpdateClock calls only, the sum
\* of the step counts UpdateClock handed to Step since that Home is congruent
\* modulo m_StepsPerCycle to (m_LastMinutes * m_StepsPerCycle) /
\* MINUTES_PER_CYCLE, and so is m_LastStepperPos.
OnlyUpdatesSinceHome == stepsSinceHome >= 0 /\ pc \in {"idle", "returned"}

UpdatesTrackTime ==
    OnlyUpdatesSinceHome =>
        /\ stepsSinceHome = FreshPosition % m_StepsPerCycle
        /\ m_LastStepperPos % m_StepsPerCycle = FreshPosition % m_StepsPerCycle

UpdatesTrackTimeWitness ==
    /\ OnlyUpdatesSinceHome
    /\ UpdateReturned
    /\ prevCall.op = "UpdateClock"
    /\ lastCall.steps # <<>>
    /\ lastCall.steps[1][1] < 0
    /\ m_LastStepperPos < 0
    /\ stepsSinceHome > 0

\* C28: with a home switch whose reading depends on the position of the
\* motor only, Home never returns StatusHomePhase3Error: phase 3 starts off
\* the switch, its first clockwise slow step is back on it, and it takes no
\* second step.
PositionSensorNoPhase3Error ==
    sensorKind = "position" =>
        /\ status # StatusHomePhase3Error
        /\ pc = "phase3" =>
               /\ i <= 1
               /\ nCwSlow = i
               /\ nCcwFast >= 1
               /\ SensorActive(motorPos) <=> (i = 1)

PositionSensorNoPhase3ErrorWitness ==
    /\ sensorKind = "position"
    /\ HomeReturned
    /\ status = StatusSuccess
    /\ nCcwFast >= 1
    /\ nCwSlow = 1
    /\ SensorActive(motorPos)

\* C29: inside Calibrate m_LastStepperPos and m_LastMinutes change only when
\* a Home succeeds, which sets both to 0; the step back is one
\* Step(-m_StepsPerHour, StepFast) that leaves both unchanged; and when
\* Calibrate returns after a step back that followed a successful Home,
\* both still read 0 while the motor, with a switch that reads the position,
\* is m_StepsPerHour steps counterclockwise of the start of the switch.
ReturnsAfterStepBack ==
    /\ calPc \in {"stepped", "loopTest"}
    /\ calPc' = "done"

CalibrateKeepsClock ==
    /\ [][(InCalibrate /\ clock' # clock) =>
              /\ pc = "phase3"
              /\ pc' = "returned"
              /\ status' = StatusSuccess
              /\ clock' = <<0, 0>>]_vars
    /\ [][StartsStepBack =>
              /\ clock' = clock
              /\ lastCall'.steps = << <<-m_StepsPerHour, StepFast>> >>
              /\ motorPos' = (motorPos - m_StepsPerHour) % m_StepsPerCycle]_vars
    /\ [][(ReturnsAfterStepBack /\ status = StatusSuccess) =>
              /\ clock' = <<0, 0>>
              /\ sensorKind = "position" =>
                     motorPos' = (homeStart - m_StepsPerHour) % m_StepsPerCycle]_vars

\* Calibrate has returned after a step back that followed a successful Home,
\* on a clock that did not read 0 when Calibrate was called.
CalibrateKeepsClockWitness ==
    /\ calPc = "done"
    /\ lastCall.op = "Calibrate"
    /\ lastCall.steps # <<>>
    /\ status = StatusSuccess
    /\ sensorKind = "position"
    /\ callClock[1] # 0
    /\ clock = <<0, 0>>
    /\ motorPos = (homeStart - m_StepsPerHour) % m_StepsPerCycle

\* C29 as stated: whenever Calibrate returns after a step back, the tracked
\* position reads 0.
TrackedZeroAsStated ==
    [][ReturnsAfterStepBack => m_LastStepperPos' = 0]_vars

====
